---- MODULE Spec2Model ----
(***************************************************************************)
(* lazyrss: the interactive controller (internal/ui/model.go), the feed    *)
(* store (package db) and the sync routine (internal/rss/fetcher.go).      *)
(*                                                                         *)
(* The event loop (Model.Update) owns the view state.  Every tea.Cmd the   *)
(* loop returns runs in a goroutine of its own: it is a task of the bag    *)
(* `tasks`, its store accesses are steps of the model, and the tea.Msg it  *)
(* returns joins the bag `msgs`.  The loop takes the messages one at a     *)
(* time, in the order the goroutines hand them over, which is any order.   *)
(***************************************************************************)
EXTENDS Integers, Sequences, FiniteSets, Bags, TLC

\* ------------------------------------------------------------- bounds
\* Input events (keys) the user produces in a run over a stored feed list.
MaxInputs == 1
\* Input events in a run that starts with no feed stored.
FreshInputs == 3
\* Feeds stored, and input events, in a run that reorders the feed list.
ReorderFeeds == 3
ReorderInputs == 2
\* Input events in a run that reorders a list the reorders left degenerate.
RepairInputs == 5
\* Input events in a run that imports a document and adds a feed.
SubscribeInputs == 5
\* Input events in a run through the dialogs and the help screen.
DialogInputs == 4
\* Input events in a run that deletes feeds from the list.
ShrinkInputs == 3
\* Pieces (words, links, images) of a text that is rendered.
MaxPieces == 2
\* The wall clock runs from 1 to MaxTime.
MaxTime == 2
\* Feeds stored when the program starts.
InitFeeds == 2

\* ---------------------------------------------------- program constants
paneFeeds == 0
paneEntries == 1
paneContent == 2

stateMain == 0
stateAddingFeed == 1
stateImportingOPML == 2
stateExportingOPML == 3
stateHelp == 4

\* ------------------------------------------------------ the environment
\* Feed URLs the user can subscribe to.  A feed's title is fixed by its
\* URL, and titles sort as the URLs do.
Urls == 1 .. 3

\* What a fetch of a URL can return: the document the URL serves, its items
\* in document order (a set, empty when the URL serves no parsable feed).
\* pub = 0 is an item with neither a published nor an updated date.  Link 2
\* is syndicated by two feeds.
RemoteVersions(u) ==
    CASE u = 1 -> { << [link |-> 2, pub |-> 0], [link |-> 1, pub |-> 1] >> }
      [] u = 2 -> { << [link |-> 3, pub |-> 2], [link |-> 2, pub |-> 1] >> }
      [] OTHER -> {}

\* The zero value of db.Feed.
NoFeed == [id |-> 0, url |-> 0, pos |-> 0, lra |-> 0, unread |-> 0]

\* ------------------------------------------------------------ package db
\* A feeds row is [id, url, pos, lra]; an entries row is
\* [id, feedId, link, pub, read].

\* A count that takes an entry published at the watermark for unread.
UnreadCountInclusive(f, E) ==
    Cardinality({e \in E : e.feedId = f.id /\ e.pub >= f.lra})

\* (SELECT COUNT(*) FROM entries WHERE feed_id = feeds.id
\*    AND published_at > feeds.last_read_at) as unread_count
UnreadCount(f, E) ==
    Cardinality({e \in E : e.feedId = f.id /\ e.pub > f.lra})

FeedBefore(a, b) ==
    \/ a.pos < b.pos
    \/ a.pos = b.pos /\ a.url < b.url

RECURSIVE SortFeeds(_)
SortFeeds(S) ==
    IF S = {} THEN << >>
    ELSE LET m == CHOOSE x \in S : \A y \in S : y = x \/ FeedBefore(x, y)
         IN  << m >> \o SortFeeds(S \ {m})

\* SELECT ... unread_count ... ORDER BY position ASC, title ASC
GetFeeds(F, E) ==
    SortFeeds({[id |-> f.id, url |-> f.url, pos |-> f.pos, lra |-> f.lra,
                unread |-> UnreadCount(f, E)] : f \in F})

\* UPDATE feeds SET position = pos WHERE id = id
SetPosition(F, id, pos) ==
    {IF f.id = id THEN [f EXCEPT !.pos = pos] ELSE f : f \in F}

\* Two UPDATEs without a transaction: the first stays when the second fails.
SwapFeedPositionsNoTx(F, idA, posA, idB, posB, failAt) ==
    IF failAt = 1 THEN [err |-> TRUE, feeds |-> F]
    ELSE IF failAt = 2 THEN [err |-> TRUE, feeds |-> SetPosition(F, idA, posB)]
    ELSE [err |-> FALSE,
          feeds |-> SetPosition(SetPosition(F, idA, posB), idB, posA)]

\* Two UPDATEs in one transaction: the first sets idA's position to posB,
\* the second idB's to posA.  failAt = k > 0 is the k-th tx.Exec returning an
\* error: tx.Rollback() and the error is returned.  failAt = 0 is tx.Commit().
SwapFeedPositions(F, idA, posA, idB, posB, failAt) ==
    IF failAt > 0 THEN [err |-> TRUE, feeds |-> F]
    ELSE [err |-> FALSE,
          feeds |-> SetPosition(SetPosition(F, idA, posB), idB, posA)]

MarkFeedAsRead(F, id, t) ==
    {IF f.id = id THEN [f EXCEPT !.lra = t] ELSE f : f \in F}

\* SELECT COALESCE(MAX(position), -1) FROM feeds
MaxPosition(F) ==
    IF F = {} THEN -1
    ELSE CHOOSE p \in {f.pos : f \in F} : \A f \in F : f.pos <= p

\* INSERT OR IGNORE INTO feeds: the url column is UNIQUE.
InsertFeed(F, id, url, pos) ==
    IF \E f \in F : f.url = url THEN F
    ELSE F \cup {[id |-> id, url |-> url, pos |-> pos, lra |-> 0]}

\* DELETE FROM feeds WHERE id = ?.  The connection string of InitDB sets
\* journal_mode and busy_timeout only; SQLite enforces a FOREIGN KEY, and so
\* ON DELETE CASCADE, only under PRAGMA foreign_keys = ON, so the entries
\* rows stay.
DeleteFeed(F, id) == {f \in F : f.id # id}

\* An INSERT OR REPLACE INTO entries: the row of the same link is replaced.
InsertOrReplaceEntry(E, feedID, item, t) ==
    {e \in E : e.link # item.link}
    \cup {[id |-> Cardinality(E) + 1, feedId |-> feedID, link |-> item.link,
            pub |-> IF item.pub = 0 THEN t ELSE item.pub, read |-> FALSE]}

\* One INSERT OR IGNORE INTO entries: the link column is UNIQUE.
InsertEntry(E, feedID, item, t) ==
    IF \E e \in E : e.link = item.link THEN E
    ELSE E \cup {[id |-> Cardinality(E) + 1, feedId |-> feedID,
                  link |-> item.link,
                  pub |-> IF item.pub = 0 THEN t ELSE item.pub,
                  read |-> FALSE]}

RECURSIVE InsertAll(_, _, _, _, _)
InsertAll(E, feedID, batch, n, t) ==
    IF n = 0 THEN E
    ELSE InsertEntry(InsertAll(E, feedID, batch, n - 1, t), feedID, batch[n], t)

\* A SaveEntries without the transaction: the inserts made before the failing
\* one stay.
SaveEntriesNoRollback(E, feedID, batch, failAt, t) ==
    IF failAt > 0
    THEN [err |-> TRUE, entries |-> InsertAll(E, feedID, batch, failAt - 1, t)]
    ELSE [err |-> FALSE, entries |-> InsertAll(E, feedID, batch, Len(batch), t)]

\* SaveEntries: the batch is inserted inside one transaction.  failAt = k > 0
\* is the k-th stmt.Exec returning an error: tx.Rollback() and the error is
\* returned.  failAt = 0 is tx.Commit().
SaveEntries(E, feedID, batch, failAt, t) ==
    IF failAt > 0 THEN [err |-> TRUE, entries |-> E]
    ELSE [err |-> FALSE, entries |-> InsertAll(E, feedID, batch, Len(batch), t)]

EntryBefore(a, b) ==
    \/ a.pub > b.pub
    \/ a.pub = b.pub /\ a.id < b.id

RECURSIVE SortEntries(_)
SortEntries(S) ==
    IF S = {} THEN << >>
    ELSE LET m == CHOOSE x \in S : \A y \in S : y = x \/ EntryBefore(x, y)
         IN  << m >> \o SortEntries(S \ {m})

\* SELECT ... WHERE feed_id = ? ORDER BY published_at DESC
GetEntries(E, feedID) == SortEntries({e \in E : e.feedId = feedID})

\* UPDATE entries SET read = 1 WHERE id = ?
\* An UPDATE that sets the read flag of every entry.
MarkAllAsRead(E, entryID) == {[e EXCEPT !.read = TRUE] : e \in E}

\* UPDATE entries SET read = 1 WHERE id = ?
MarkAsRead(E, entryID) ==
    {IF e.id = entryID THEN [e EXCEPT !.read = TRUE] ELSE e : e \in E}

\* ----------------------------------------------------------------- state
VARIABLES
    feeds,            \* the feeds table
    entries,          \* the entries table
    nextFeedId,       \* the next AUTOINCREMENT id of the feeds table
    bootFeedId,       \* nextFeedId when the program started
    now,              \* the wall clock
    state,            \* Model.state
    activePane,       \* Model.activePane
    previousState,    \* Model.previousState
    feedItems,        \* Model.feedsList: its items
    feedIdx,          \* Model.feedsList: its index
    entryItems,       \* Model.entriesList: its items
    entryIdx,         \* Model.entriesList: its index
    viewport,         \* Model.viewport: its content
    textInput,        \* Model.textInput: its value
    loading,          \* Model.loading
    currentFeed,      \* Model.currentFeed
    initialLoadDone,  \* Model.initialLoadDone
    syncPending,      \* Model.syncPending
    statusMsg,        \* Model.statusMsg
    ended,            \* "no"; "quit" after tea.Quit; "panic" after a panic
    tasks,            \* the commands whose goroutine has not returned yet
    msgs,             \* the messages returned and not yet taken by the loop
    budget,           \* the input events the user still produces
    render            \* the call of Model.renderMarkdown in progress

store == << feeds, entries, nextFeedId, bootFeedId >>
view == << state, activePane, previousState, feedItems, feedIdx, entryItems,
           entryIdx, viewport, textInput, loading, currentFeed,
           initialLoadDone, syncPending, statusMsg >>
vars == << feeds, entries, nextFeedId, bootFeedId, now, state, activePane, previousState,
           feedItems, feedIdx, entryItems, entryIdx, viewport, textInput,
           loading, currentFeed, initialLoadDone, syncPending, statusMsg,
           ended, tasks, msgs, budget, render >>
\* What a call of renderMarkdown neither reads nor writes.
program == << feeds, entries, nextFeedId, bootFeedId, now, state, activePane,
              previousState, feedItems, feedIdx, entryItems, entryIdx, viewport,
              textInput, loading, currentFeed, initialLoadDone, syncPending,
              statusMsg, ended, tasks, msgs, budget >>

Add(b, x) == b (+) SetToBag({x})
Rem(b, x) == b (-) SetToBag({x})

\* --------------------------------------------------- bubbles list.Model
\* list.Model.SelectedItem: nil when the index is past the items.
HasSelected(items, idx) == idx >= 0 /\ idx < Len(items)

\* list.Model.CursorUp, without infinite scrolling, on one page.
CursorUp(items, idx) == IF idx - 1 < 0 THEN 0 ELSE idx - 1

\* list.Model.CursorDown, without infinite scrolling, on one page.
CursorDown(items, idx) ==
    IF idx + 1 < Len(items) THEN idx + 1
    ELSE IF idx + 1 > Len(items) THEN 0
    ELSE Len(items) - 1

\* list.Model.Update on "home", "g": the first page and its first item.
GoToStart(items, idx) == 0

\* list.Model.Update on "end", "G": the last page and its last item; the
\* cursor of an empty list becomes -1.
GoToEnd(items, idx) == Len(items) - 1

\* ----------------------------------------------------------- commands
\* The value of each command closure.  Fields named in comments as ghost
\* fields are not in the Go value: they record what the command was issued
\* for.
LoadFeedsCmd == [k |-> "loadFeeds", index |-> -1]
LoadFeedsWithIndexCmd(index) == [k |-> "loadFeeds", index |-> index]
StartBackgroundSyncCmd == [k |-> "startBackgroundSync"]
SyncFeedCmd(f) == [k |-> "syncFeed", id |-> f.id, url |-> f.url]
LoadEntriesCmd(feed) == [k |-> "loadEntries", feed |-> feed, pc |-> 0, got |-> << >>]
ViewEntryCmd(e) == [k |-> "viewEntry", entry |-> e]

\* Model.Init: tea.Batch(m.loadFeeds, m.spinner.Tick, m.startBackgroundSync)
InitCmds == Add(SetToBag({LoadFeedsCmd}), StartBackgroundSyncCmd)

\* The store a run starts from: n feeds at the positions migrate() leaves,
\* nothing read, no entries yet.
InitStoreFeeds(n) ==
    {[id |-> i, url |-> i, pos |-> i - 1, lra |-> 0] : i \in 1 .. n}

\* No call of renderMarkdown is in progress.
NoRender == [pc |-> "idle"]

\* NewModel() over a store of n feeds, and Model.Init's commands; the user
\* is to produce b input events.
InitWith(n, b) ==
    /\ feeds = InitStoreFeeds(n)
    /\ entries = {}
    /\ nextFeedId = n + 1
    /\ bootFeedId = n + 1
    /\ now = 1
    /\ state = stateMain
    /\ activePane = paneFeeds
    /\ previousState = stateMain
    /\ feedItems = << >>
    /\ feedIdx = 0
    /\ entryItems = << >>
    /\ entryIdx = 0
    /\ viewport = [kind |-> "blank", of |-> 0]
    /\ textInput = 0
    /\ loading = TRUE
    /\ currentFeed = NoFeed
    /\ initialLoadDone = FALSE
    /\ syncPending = 0
    /\ statusMsg = ""
    /\ ended = "no"
    /\ tasks = InitCmds
    /\ msgs = EmptyBag
    /\ budget = b
    /\ render = NoRender

\* ------------------------------------------------- the commands' steps
\* A step of a command's goroutine: it leaves the view state alone.  A step
\* that reads the clock (time.Now(), CURRENT_TIMESTAMP) finds it where the
\* last reading left it or later; the other steps do not see the time pass.
ClockReadings(t) == {t} \cup (IF t < MaxTime THEN {t + 1} ELSE {})

TaskFrame == UNCHANGED << view, ended, budget, now, render >>
ClockTaskFrame == UNCHANGED << view, ended, budget, render >>

\* Model.loadFeeds, and Model.loadFeedsWithIndex which sets the index of the
\* feedsMsg that loadFeeds returned.
RunLoadFeeds ==
    \E t \in BagToSet(tasks) :
        /\ ended = "no"
        /\ t.k = "loadFeeds"
        /\ tasks' = Rem(tasks, t)
        /\ msgs' = Add(msgs, [type |-> "feedsMsg",
                              items |-> GetFeeds(feeds, entries),
                              index |-> t.index])
        /\ UNCHANGED store
        /\ TaskFrame

\* Model.startBackgroundSync
RunStartBackgroundSync ==
    \E t \in BagToSet(tasks) :
        /\ ended = "no"
        /\ t.k = "startBackgroundSync"
        /\ tasks' = Rem(tasks, t)
        /\ msgs' = Add(msgs, [type |-> "backgroundSyncMsg",
                              feeds |-> GetFeeds(feeds, entries)])
        /\ UNCHANGED store
        /\ TaskFrame

\* rss.SyncFeed: the outcome for the store and the error it returns.
\* fetched = << >> with fetchErr is FetchFeed failing (network, parse,
\* timeout); failAt is passed to SaveEntries.
SyncFeed(E, feedID, fetchErr, fetched, failAt, t) ==
    IF fetchErr THEN [err |-> TRUE, entries |-> E]
    ELSE SaveEntries(E, feedID, fetched, failAt, t)

\* An errMsg.  The Go value is the bare error: from (the command), feed (the
\* feed it worked on, 0 for none) and why are ghost fields.
ErrMsg(from, feed, why) ==
    [type |-> "errMsg", from |-> from, feed |-> feed, why |-> why]

\* The message Model.syncFeed returns.
SyncFeedMsg(t, o, err) ==
    IF err THEN ErrMsg("syncFeed", t.id, IF o.fetchErr THEN "fetch" ELSE "save")
    ELSE [type |-> "feedSyncedMsg", feedID |-> t.id]

\* What a fetch of url can do: fail, or return one version of the document,
\* after which one of the inserts may fail.
SyncOutcomes(url) ==
    {[fetchErr |-> TRUE, fetched |-> << >>, failAt |-> 0]}
    \cup UNION {{[fetchErr |-> FALSE, fetched |-> v, failAt |-> k] :
                    k \in 0 .. Len(v)} : v \in RemoteVersions(url)}

\* Model.syncFeed
RunSyncFeed ==
    \E t \in BagToSet(tasks) :
        /\ ended = "no"
        /\ t.k = "syncFeed"
        /\ \E o \in SyncOutcomes(t.url), time \in ClockReadings(now) :
               LET r == SyncFeed(entries, t.id, o.fetchErr, o.fetched, o.failAt, time)
               IN  /\ entries' = r.entries
                   /\ now' = IF o.fetchErr THEN now ELSE time
                   /\ msgs' = Add(msgs, SyncFeedMsg(t, o, r.err))
        /\ tasks' = Rem(tasks, t)
        /\ UNCHANGED << feeds, nextFeedId, bootFeedId >>
        /\ ClockTaskFrame

\* Model.loadEntries, first statement: db.GetEntries(feed.ID)
RunLoadEntriesGet ==
    \E t \in BagToSet(tasks) :
        /\ ended = "no"
        /\ t.k = "loadEntries" /\ t.pc = 0
        /\ tasks' = Add(Rem(tasks, t),
                        [t EXCEPT !.pc = 1, !.got = GetEntries(entries, t.feed.id)])
        /\ UNCHANGED << store, msgs >>
        /\ TaskFrame

\* The entriesMsg of Model.loadEntries: lastReadAt is the LastReadAt of the
\* db.Feed value the command was given.  feed is a ghost field.
EntriesMsgOf(t) ==
    [type |-> "entriesMsg", entries |-> t.got, lastReadAt |-> t.feed.lra,
     feed |-> t.feed.id]

\* Model.loadEntries, the rest: db.MarkFeedAsRead(feed.ID) and the message
RunLoadEntriesMark ==
    \E t \in BagToSet(tasks) :
        /\ ended = "no"
        /\ t.k = "loadEntries" /\ t.pc = 1
        /\ \E time \in ClockReadings(now) :
            /\ feeds' = MarkFeedAsRead(feeds, t.feed.id, time)
            /\ now' = time
        /\ tasks' = Rem(tasks, t)
        /\ msgs' = Add(msgs, EntriesMsgOf(t))
        /\ UNCHANGED << entries, nextFeedId, bootFeedId >>
        /\ ClockTaskFrame

\* Model.viewEntry: db.MarkAsRead(e.ID), then the rendered text of e, which
\* is a function of e's fields.  entry is a ghost field.
RunViewEntry ==
    \E t \in BagToSet(tasks) :
        /\ ended = "no"
        /\ t.k = "viewEntry"
        /\ entries' = MarkAsRead(entries, t.entry.id)
        /\ tasks' = Rem(tasks, t)
        /\ msgs' = Add(msgs, [type |-> "contentMsg", text |-> t.entry.link,
                              entry |-> t.entry.id])
        /\ UNCHANGED << feeds, nextFeedId, bootFeedId >>
        /\ TaskFrame

\* ------------------------------------------- Model.Update: the messages
\* The loop takes message m.  What a handler leaves alone of the view state
\* is spelled out in each; none touches the store.
Take(m) ==
    /\ ended = "no"
    /\ msgs' = Rem(msgs, m)
    /\ UNCHANGED << store, now, ended, budget, render >>

\* A batch that holds the job of the first feed only.
SyncCmdsFirst(fs) ==
    IF Len(fs) = 0 THEN EmptyBag ELSE SetToBag({SyncFeedCmd(fs[1])})

\* The commands the backgroundSyncMsg case batches: m.syncFeed(f) for each
\* feed of the message.
SyncCmds(fs) ==
    [c \in {SyncFeedCmd(fs[i]) : i \in 1 .. Len(fs)} |-> 1]

\* case backgroundSyncMsg
OnBackgroundSyncMsg ==
    \E m \in BagToSet(msgs) :
        /\ m.type = "backgroundSyncMsg"
        /\ Take(m)
        /\ syncPending' = Len(m.feeds)
        /\ tasks' = tasks (+) SyncCmds(m.feeds)
        /\ UNCHANGED << state, activePane, previousState, feedItems, feedIdx,
                        entryItems, entryIdx, viewport, textInput, loading,
                        currentFeed, initialLoadDone, statusMsg >>

\* case feedSyncedMsg
OnFeedSyncedMsg ==
    \E m \in BagToSet(msgs) :
        /\ m.type = "feedSyncedMsg"
        /\ Take(m)
        /\ syncPending' = syncPending - 1
        /\ tasks' = Add(tasks, LoadFeedsCmd)
        /\ UNCHANGED << state, activePane, previousState, feedItems, feedIdx,
                        entryItems, entryIdx, viewport, textInput, loading,
                        currentFeed, initialLoadDone, statusMsg >>

\* The index of feedsList after SetItems(msg.items) and the Select of the
\* feedsMsg case: SetItems keeps the index it finds.
FeedsMsgIndex(m, idx) ==
    IF m.index >= 0 /\ m.index < Len(m.items) THEN m.index ELSE idx

\* A feedsMsg case that loads the selected feed's entries on every reload.
FeedsMsgCascadesAlways(m, done) == Len(m.items) > 0

\* Whether the feedsMsg case goes on to load the selected feed's entries.
FeedsMsgCascades(m, done) == ~done /\ Len(m.items) > 0

\* case feedsMsg
OnFeedsMsg ==
    \E m \in BagToSet(msgs) :
        /\ m.type = "feedsMsg"
        /\ Take(m)
        /\ feedItems' = m.items
        /\ feedIdx' = FeedsMsgIndex(m, feedIdx)
        /\ loading' = FALSE
        /\ IF FeedsMsgCascades(m, initialLoadDone)
           THEN /\ initialLoadDone' = TRUE
                /\ IF HasSelected(feedItems', feedIdx')
                   THEN /\ currentFeed' = feedItems'[feedIdx' + 1]
                        /\ tasks' = Add(tasks, LoadEntriesCmd(feedItems'[feedIdx' + 1]))
                   ELSE UNCHANGED << currentFeed, tasks >>
           ELSE UNCHANGED << initialLoadDone, currentFeed, tasks >>
        /\ UNCHANGED << state, activePane, previousState, entryItems, entryIdx,
                        viewport, textInput, syncPending, statusMsg >>

\* The items the entriesMsg case builds.
EntryItemsOf(m) ==
    [i \in 1 .. Len(m.entries) |->
        [entry |-> m.entries[i], feedLastReadAt |-> m.lastReadAt]]

\* case entriesMsg
OnEntriesMsg ==
    \E m \in BagToSet(msgs) :
        /\ m.type = "entriesMsg"
        /\ Take(m)
        /\ entryItems' = EntryItemsOf(m)
        /\ loading' = FALSE
        /\ IF Len(entryItems') > 0 /\ HasSelected(entryItems', entryIdx)
           THEN tasks' = Add(tasks, ViewEntryCmd(entryItems'[entryIdx + 1].entry))
           ELSE UNCHANGED tasks
        /\ UNCHANGED << state, activePane, previousState, feedItems, feedIdx,
                        entryIdx, viewport, textInput, currentFeed,
                        initialLoadDone, syncPending, statusMsg >>

\* case contentMsg
OnContentMsg ==
    \E m \in BagToSet(msgs) :
        /\ m.type = "contentMsg"
        /\ Take(m)
        /\ viewport' = [kind |-> "content", of |-> m.text]
        /\ loading' = FALSE
        /\ UNCHANGED << state, activePane, previousState, feedItems, feedIdx,
                        entryItems, entryIdx, textInput, currentFeed,
                        initialLoadDone, syncPending, statusMsg, tasks >>

\* The viewport content the errMsg case sets.
ErrMsgViewport(m, vp) == [kind |-> "error", of |-> 0]

\* case errMsg
OnErrMsg ==
    \E m \in BagToSet(msgs) :
        /\ m.type = "errMsg"
        /\ Take(m)
        /\ viewport' = ErrMsgViewport(m, viewport)
        /\ loading' = FALSE
        /\ UNCHANGED << state, activePane, previousState, feedItems, feedIdx,
                        entryItems, entryIdx, textInput, currentFeed,
                        initialLoadDone, syncPending, statusMsg, tasks >>

\* case exportMsg
OnExportMsg ==
    \E m \in BagToSet(msgs) :
        /\ m.type = "exportMsg"
        /\ Take(m)
        /\ statusMsg' = "exported"
        /\ loading' = FALSE
        /\ UNCHANGED << state, activePane, previousState, feedItems, feedIdx,
                        entryItems, entryIdx, viewport, textInput, currentFeed,
                        initialLoadDone, syncPending, tasks >>

\* ----------------------------------------------- Model.Update: the keys
\* case tea.KeyMsg: every key clears the status message.  The filter of the
\* two lists is never opened here, so isFiltering is false.
Key ==
    /\ ended = "no"
    /\ budget > 0
    /\ budget' = budget - 1
    /\ statusMsg' = ""
    /\ UNCHANGED << now, msgs, render >>

\* "?" outside stateHelp and stateAddingFeed
KeyHelp ==
    /\ Key
    /\ state # stateHelp /\ state # stateAddingFeed
    /\ previousState' = state
    /\ state' = stateHelp
    /\ UNCHANGED << store, ended, tasks, activePane, feedItems, feedIdx,
                    entryItems, entryIdx, viewport, textInput, loading,
                    currentFeed, initialLoadDone, syncPending >>

\* case stateHelp: "q", "esc", "backspace", "?"
KeyHelpExit ==
    /\ Key
    /\ state = stateHelp
    /\ state' = previousState
    /\ UNCHANGED << store, ended, tasks, activePane, previousState, feedItems,
                    feedIdx, entryItems, entryIdx, viewport, textInput, loading,
                    currentFeed, initialLoadDone, syncPending >>

\* A key the state it is pressed in has no case for: in stateHelp any other
\* key; in stateMain "enter" (openBrowser), a key of the content pane (the
\* viewport scrolls), a key no binding of the focused list moves the
\* selection with (the page keys move nothing on one page).
KeyIgnored ==
    /\ Key
    /\ state \in {stateHelp, stateMain}
    /\ UNCHANGED << store, ended, tasks, state, activePane, previousState,
                    feedItems, feedIdx, entryItems, entryIdx, viewport,
                    textInput, loading, currentFeed, initialLoadDone,
                    syncPending >>

\* case stateMain, "q"
KeyQuit ==
    /\ Key
    /\ state = stateMain
    /\ ended' = "quit"
    /\ UNCHANGED << store, tasks, state, activePane, previousState, feedItems,
                    feedIdx, entryItems, entryIdx, viewport, textInput, loading,
                    currentFeed, initialLoadDone, syncPending >>

\* A tab that does not wrap around the three panes.
NextPaneNoWrap(p) == p + 1

\* A shift+tab that does not wrap around the three panes.
PrevPaneNoWrap(p) == p - 1

NextPane(p) == (p + 1) % 3
PrevPane(p) == (p - 1 + 3) % 3

\* case stateMain, "tab", "right"
KeyTab ==
    /\ Key
    /\ state = stateMain
    /\ activePane' = NextPane(activePane)
    /\ UNCHANGED << store, ended, tasks, state, previousState, feedItems,
                    feedIdx, entryItems, entryIdx, viewport, textInput, loading,
                    currentFeed, initialLoadDone, syncPending >>

\* case stateMain, "shift+tab", "left"
KeyShiftTab ==
    /\ Key
    /\ state = stateMain
    /\ activePane' = PrevPane(activePane)
    /\ UNCHANGED << store, ended, tasks, state, previousState, feedItems,
                    feedIdx, entryItems, entryIdx, viewport, textInput, loading,
                    currentFeed, initialLoadDone, syncPending >>

\* case stateMain, "a"
KeyA ==
    /\ Key
    /\ state = stateMain
    /\ state' = stateAddingFeed
    /\ UNCHANGED << store, ended, tasks, activePane, previousState, feedItems,
                    feedIdx, entryItems, entryIdx, viewport, textInput, loading,
                    currentFeed, initialLoadDone, syncPending >>

\* case stateMain, "i".  filePicker.Init() reads the directory.
KeyI ==
    /\ Key
    /\ state = stateMain
    /\ state' = stateImportingOPML
    /\ UNCHANGED << store, ended, tasks, activePane, previousState, feedItems,
                    feedIdx, entryItems, entryIdx, viewport, textInput, loading,
                    currentFeed, initialLoadDone, syncPending >>

\* case stateMain, "r": it is matched before the key reaches a pane, so the
\* "r" of the entries pane (Model.refreshCurrentFeed) is never taken.
KeyR ==
    /\ Key
    /\ state = stateMain
    /\ tasks' = Add(tasks, StartBackgroundSyncCmd)
    /\ UNCHANGED << store, ended, state, activePane, previousState, feedItems,
                    feedIdx, entryItems, entryIdx, viewport, textInput, loading,
                    currentFeed, initialLoadDone, syncPending >>

\* What the keys of a pane leave alone.
PaneKeyFrame ==
    UNCHANGED << nextFeedId, bootFeedId, entries, state, activePane, previousState,
                 feedItems, viewport, textInput, loading, initialLoadDone,
                 syncPending >>

\* case paneFeeds, "up", "k" (move = CursorUp) and "down", "j" (CursorDown)
FeedsMove(idx) ==
    /\ feedIdx' = idx
    /\ IF HasSelected(feedItems, idx)
       THEN /\ currentFeed' = feedItems[idx + 1]
            /\ tasks' = Add(tasks, LoadEntriesCmd(feedItems[idx + 1]))
       ELSE UNCHANGED << currentFeed, tasks >>
    /\ UNCHANGED << feeds, ended, entryItems, entryIdx >>
    /\ PaneKeyFrame

KeyFeedsUp ==
    /\ Key
    /\ state = stateMain /\ activePane = paneFeeds
    /\ FeedsMove(CursorUp(feedItems, feedIdx))

KeyFeedsDown ==
    /\ Key
    /\ state = stateMain /\ activePane = paneFeeds
    /\ FeedsMove(CursorDown(feedItems, feedIdx))

\* case paneFeeds, a key past the inner switch: m.feedsList.Update(msg).  On
\* "home", "g", "end", "G" the list moves its cursor; nothing else follows.
KeyFeedsJump ==
    /\ Key
    /\ state = stateMain /\ activePane = paneFeeds
    /\ feedIdx' \in {GoToStart(feedItems, feedIdx), GoToEnd(feedItems, feedIdx)}
    /\ UNCHANGED << feeds, ended, tasks, currentFeed, entryItems, entryIdx >>
    /\ PaneKeyFrame

\* The two positions handed to SwapFeedPositions for the item at idx and
\* its neighbour at nbr: the positions the list items carry, or the two list
\* indices when those are equal.
ReorderPositions(itemA, itemB, idx, nbr) ==
    IF itemA.pos = itemB.pos THEN << idx, nbr >> ELSE << itemA.pos, itemB.pos >>

\* The feeds table after the reorder of the item at idx of the list items
\* with its neighbour at nbr: the error db.SwapFeedPositions returns is
\* dropped.
ReorderedFeeds(F, items, idx, nbr, failAt) ==
    LET itemA == items[idx + 1]
        itemB == items[nbr + 1]
        p == ReorderPositions(itemA, itemB, idx, nbr)
    IN  SwapFeedPositions(F, itemA.id, p[1], itemB.id, p[2], failAt).feeds

\* db.SwapFeedPositions called by the key's case, in the loop itself, and
\* the reload it returns.  Items()[idx] past the slice is a run-time panic.
Reorder(idx, nbr) ==
    IF idx < 0 \/ idx + 1 > Len(feedItems) \/ nbr + 1 > Len(feedItems)
    THEN /\ ended' = "panic"
         /\ UNCHANGED << feeds, tasks >>
    ELSE /\ \E failAt \in 0 .. 2 :
                feeds' = ReorderedFeeds(feeds, feedItems, idx, nbr, failAt)
         /\ tasks' = Add(tasks, LoadFeedsWithIndexCmd(nbr))
         /\ UNCHANGED ended

\* case paneFeeds, "alt+up", "alt+k"
KeyAltUp ==
    /\ Key
    /\ state = stateMain /\ activePane = paneFeeds
    /\ IF feedIdx > 0
       THEN Reorder(feedIdx, feedIdx - 1)
       ELSE UNCHANGED << feeds, tasks, ended >>
    /\ UNCHANGED << feedIdx, currentFeed, entryItems, entryIdx >>
    /\ PaneKeyFrame

\* case paneFeeds, "alt+down", "alt+j"
KeyAltDown ==
    /\ Key
    /\ state = stateMain /\ activePane = paneFeeds
    /\ IF feedIdx < Len(feedItems) - 1
       THEN Reorder(feedIdx, feedIdx + 1)
       ELSE UNCHANGED << feeds, tasks, ended >>
    /\ UNCHANGED << feedIdx, currentFeed, entryItems, entryIdx >>
    /\ PaneKeyFrame

DeleteFeedCmd(id) == [k |-> "deleteFeed", id |-> id, pc |-> 0]

\* case paneFeeds, "d"
KeyD ==
    /\ Key
    /\ state = stateMain /\ activePane = paneFeeds
    /\ IF HasSelected(feedItems, feedIdx)
       THEN tasks' = Add(tasks, DeleteFeedCmd(feedItems[feedIdx + 1].id))
       ELSE UNCHANGED tasks
    /\ UNCHANGED << feeds, ended, feedIdx, currentFeed, entryItems, entryIdx >>
    /\ PaneKeyFrame

\* case paneEntries, "up", "k" (move = CursorUp) and "down", "j" (CursorDown)
EntriesMove(idx) ==
    /\ entryIdx' = idx
    /\ IF HasSelected(entryItems, idx)
       THEN tasks' = Add(tasks, ViewEntryCmd(entryItems[idx + 1].entry))
       ELSE UNCHANGED tasks
    /\ UNCHANGED << feeds, ended, feedIdx, currentFeed, entryItems >>
    /\ PaneKeyFrame

KeyEntriesUp ==
    /\ Key
    /\ state = stateMain /\ activePane = paneEntries
    /\ EntriesMove(CursorUp(entryItems, entryIdx))

KeyEntriesDown ==
    /\ Key
    /\ state = stateMain /\ activePane = paneEntries
    /\ EntriesMove(CursorDown(entryItems, entryIdx))

\* case paneEntries, a key past the inner switch: m.entriesList.Update(msg)
\* on "home", "g", "end", "G".
KeyEntriesJump ==
    /\ Key
    /\ state = stateMain /\ activePane = paneEntries
    /\ entryIdx' \in {GoToStart(entryItems, entryIdx), GoToEnd(entryItems, entryIdx)}
    /\ UNCHANGED << feeds, ended, tasks, feedIdx, currentFeed, entryItems >>
    /\ PaneKeyFrame

\* What the keys of the two dialogs and "e" leave alone.
DialogKeyFrame ==
    UNCHANGED << store, ended, activePane, previousState, feedItems, feedIdx,
                 entryItems, entryIdx, viewport, currentFeed, initialLoadDone,
                 syncPending >>

AddFeedCmd(url) == [k |-> "addFeed", url |-> url, pc |-> 0, maxPos |-> 0, id |-> 0]
ImportOPMLCmd(path) == [k |-> "importOPML", path |-> path, pc |-> 0, maxPos |-> 0, rest |-> << >>]
ExportOPMLCmd == [k |-> "exportOPML"]

\* case stateMain, "e"
KeyE ==
    /\ Key
    /\ state = stateMain
    /\ tasks' = Add(tasks, ExportOPMLCmd)
    /\ UNCHANGED << state, textInput, loading >>
    /\ DialogKeyFrame

\* case stateAddingFeed, any other key: textInput.Update.  The user types
\* (or pastes) a URL.
KeyType ==
    /\ Key
    /\ state = stateAddingFeed
    /\ \E u \in Urls : textInput' = u
    /\ UNCHANGED << state, loading, tasks >>
    /\ DialogKeyFrame

\* An "esc" that leaves the dialog and keeps what was typed.
KeyAddEscKeepsInput ==
    /\ Key
    /\ state = stateAddingFeed
    /\ state' = stateMain
    /\ UNCHANGED << textInput, loading, tasks >>
    /\ DialogKeyFrame

\* case stateAddingFeed, "esc"
KeyAddEsc ==
    /\ Key
    /\ state = stateAddingFeed
    /\ state' = stateMain
    /\ textInput' = 0
    /\ UNCHANGED << loading, tasks >>
    /\ DialogKeyFrame

\* case stateAddingFeed, "enter"
KeyAddEnter ==
    /\ Key
    /\ state = stateAddingFeed
    /\ state' = stateMain
    /\ textInput' = 0
    /\ loading' = TRUE
    /\ tasks' = Add(tasks, AddFeedCmd(textInput))
    /\ DialogKeyFrame

\* case stateImportingOPML, "esc"
KeyImportEsc ==
    /\ Key
    /\ state = stateImportingOPML
    /\ state' = stateMain
    /\ UNCHANGED << textInput, loading, tasks >>
    /\ DialogKeyFrame

\* The files the picker can select: 1 and 3 are OPML documents, 2 is not.
Paths == 1 .. 3

\* case stateImportingOPML, a key with which filePicker.DidSelectFile
KeyImportSelect ==
    /\ Key
    /\ state = stateImportingOPML
    /\ state' = stateMain
    /\ loading' = TRUE
    /\ \E path \in Paths : tasks' = Add(tasks, ImportOPMLCmd(path))
    /\ UNCHANGED textInput
    /\ DialogKeyFrame

\* ----------------------------------------------- Model.Update: the mouse
\* case tea.MouseMsg: the case does not look at m.state.  The status message
\* stays.
Mouse ==
    /\ ended = "no"
    /\ budget > 0
    /\ budget' = budget - 1
    /\ UNCHANGED << store, now, ended, msgs, render, statusMsg, state,
                    previousState, feedItems, feedIdx, entryItems, entryIdx,
                    viewport, textInput, loading, initialLoadDone, syncPending >>

\* A wheel event (routed to the pane under the pointer), a press, a motion:
\* list.Model.Update has no case for a mouse message and the viewport only
\* scrolls.
MouseIgnored ==
    /\ Mouse
    /\ UNCHANGED << activePane, currentFeed, tasks >>

\* The release of the left button over a column that takes the focus and
\* dispatches nothing: the Content column, or a list that has no selected
\* item.
MouseFocusOnly(pane) ==
    /\ activePane' = pane
    /\ UNCHANGED << currentFeed, tasks >>

\* msg.Type == tea.MouseLeft && msg.Action == tea.MouseActionRelease, over
\* the Feeds column
MouseClickFeeds ==
    /\ Mouse
    /\ IF HasSelected(feedItems, feedIdx)
       THEN /\ activePane' = paneFeeds
            /\ currentFeed' = feedItems[feedIdx + 1]
            /\ tasks' = Add(tasks, LoadEntriesCmd(feedItems[feedIdx + 1]))
       ELSE MouseFocusOnly(paneFeeds)

\* the same, over the Entries column
MouseClickEntries ==
    /\ Mouse
    /\ IF HasSelected(entryItems, entryIdx)
       THEN /\ activePane' = paneEntries
            /\ tasks' = Add(tasks, ViewEntryCmd(entryItems[entryIdx + 1].entry))
            /\ UNCHANGED currentFeed
       ELSE MouseFocusOnly(paneEntries)

\* the same, over the Content column
MouseClickContent ==
    /\ Mouse
    /\ MouseFocusOnly(paneContent)

\* ------------------------------------- the steps of the other commands
\* Model.deleteFeed: db.DeleteFeed(id)
RunDeleteFeed ==
    \E t \in BagToSet(tasks) :
        /\ ended = "no"
        /\ t.k = "deleteFeed" /\ t.pc = 0
        /\ feeds' = DeleteFeed(feeds, t.id)
        /\ tasks' = Add(Rem(tasks, t), [t EXCEPT !.pc = 1])
        /\ UNCHANGED << entries, nextFeedId, bootFeedId, msgs >>
        /\ TaskFrame

\* Model.deleteFeed, Model.addFeed, Model.importOPML: return m.loadFeeds()
RunThenLoadFeeds ==
    \E t \in BagToSet(tasks) :
        /\ ended = "no"
        /\ \/ t.k = "deleteFeed" /\ t.pc = 1
           \/ t.k = "addFeed" /\ t.pc = 3
           \/ t.k = "importOPML" /\ t.pc = 1 /\ t.rest = << >>
        /\ tasks' = Rem(tasks, t)
        /\ msgs' = Add(msgs, [type |-> "feedsMsg",
                              items |-> GetFeeds(feeds, entries),
                              index |-> -1])
        /\ UNCHANGED store
        /\ TaskFrame

\* Model.exportOPML: db.GetFeeds(), then os.WriteFile, which may fail.
RunExportOPML ==
    \E t \in BagToSet(tasks) :
        /\ ended = "no"
        /\ t.k = "exportOPML"
        /\ tasks' = Rem(tasks, t)
        /\ \E ok \in BOOLEAN :
             msgs' = Add(msgs, IF ok THEN [type |-> "exportMsg"]
                               ELSE ErrMsg("exportOPML", 0, "write"))
        /\ UNCHANGED store
        /\ TaskFrame

\* Model.addFeed: rss.FetchFeed(url) failing
RunAddFeedFetchFails ==
    \E t \in BagToSet(tasks) :
        /\ ended = "no"
        /\ t.k = "addFeed" /\ t.pc = 0
        /\ tasks' = Rem(tasks, t)
        /\ msgs' = Add(msgs, ErrMsg("addFeed", 0, "fetch"))
        /\ UNCHANGED store
        /\ TaskFrame

\* Model.addFeed: rss.FetchFeed(url) returning a feed, then the first
\* statement of db.AddFeed, SELECT COALESCE(MAX(position), -1)
RunAddFeedMax ==
    \E t \in BagToSet(tasks) :
        /\ ended = "no"
        /\ t.k = "addFeed" /\ t.pc = 0
        /\ RemoteVersions(t.url) # {}
        /\ tasks' = Add(Rem(tasks, t), [t EXCEPT !.pc = 1, !.maxPos = MaxPosition(feeds)])
        /\ UNCHANGED << store, msgs >>
        /\ TaskFrame

\* res.LastInsertId() of an INSERT OR IGNORE that inserted nothing: the rowid
\* of the last insert the connection made, into either table, or 0 when it
\* made none.  The feeds inserted in this run have the ids from bootId on; the
\* entries all were inserted in this run.
StaleInsertIds(E, bootId, nextId) ==
    {0} \cup (bootId .. nextId - 1) \cup {e.id : e \in E}

\* An INSERT OR REPLACE INTO feeds: the row of the same url gives way to a
\* new one.
AddFeedInsertReplace(F, E, bootId, nextId, url, maxPos) ==
    [feeds |-> {f \in F : f.url # url}
               \cup {[id |-> nextId, url |-> url, pos |-> maxPos + 1, lra |-> 0]},
     nextId |-> nextId + 1, ids |-> {nextId}]

\* The second statement of db.AddFeed, INSERT OR IGNORE INTO feeds, as a
\* change of the feeds table, of the id counter, and the ids it may return.
AddFeedInsert(F, E, bootId, nextId, url, maxPos) ==
    IF \E f \in F : f.url = url
    THEN [feeds |-> F, nextId |-> nextId, ids |-> StaleInsertIds(E, bootId, nextId)]
    ELSE [feeds |-> InsertFeed(F, nextId, url, maxPos + 1),
          nextId |-> nextId + 1, ids |-> {nextId}]

\* Model.addFeed: the INSERT of db.AddFeed
RunAddFeedInsert ==
    \E t \in BagToSet(tasks) :
        /\ ended = "no"
        /\ t.k = "addFeed" /\ t.pc = 1
        /\ LET r == AddFeedInsert(feeds, entries, bootFeedId, nextFeedId, t.url, t.maxPos)
           IN  /\ feeds' = r.feeds
               /\ nextFeedId' = r.nextId
               /\ \E id \in r.ids :
                    tasks' = Add(Rem(tasks, t), [t EXCEPT !.pc = 2, !.id = id])
        /\ UNCHANGED << entries, bootFeedId, msgs >>
        /\ TaskFrame

\* Model.addFeed: rss.SyncFeed(id, url)
RunAddFeedSync ==
    \E t \in BagToSet(tasks) :
        /\ ended = "no"
        /\ t.k = "addFeed" /\ t.pc = 2
        /\ \E o \in SyncOutcomes(t.url), time \in ClockReadings(now) :
               LET r == SyncFeed(entries, t.id, o.fetchErr, o.fetched, o.failAt, time)
               IN  /\ entries' = r.entries
                   /\ now' = IF o.fetchErr THEN now ELSE time
                   /\ IF r.err
                      THEN /\ tasks' = Rem(tasks, t)
                           /\ msgs' = Add(msgs, ErrMsg("addFeed", t.id, IF o.fetchErr THEN "fetch" ELSE "save"))
                      ELSE /\ tasks' = Add(Rem(tasks, t), [t EXCEPT !.pc = 3])
                           /\ UNCHANGED msgs
        /\ UNCHANGED << feeds, nextFeedId, bootFeedId >>
        /\ ClockTaskFrame

\* ----------------------------------------------------- rss/opml.go
\* The body of the OPML document at path 1: a feed outline, and a folder
\* holding another.  xmlUrl 0 is the empty string.
OPMLBody ==
    << [type |-> "rss", xmlUrl |-> 3, outlines |-> << >>],
       [type |-> "", xmlUrl |-> 0, outlines |->
           << [type |-> "", xmlUrl |-> 2, outlines |-> << >>] >>] >>

\* The body of the OPML document at path 3: an outline of type "rss" that
\* has no xmlUrl attribute, holding a feed outline without a type.
OPMLTypedBody ==
    << [type |-> "rss", xmlUrl |-> 0, outlines |->
           << [type |-> "", xmlUrl |-> 1, outlines |-> << >>] >>] >>

OPMLBodyAt(path) == IF path = 1 THEN OPMLBody ELSE OPMLTypedBody

\* OPML.Flatten
RECURSIVE Flatten(_)
Flatten(outs) ==
    IF outs = << >> THEN << >>
    ELSE LET out == Head(outs)
         IN  (IF out.type = "rss" \/ out.xmlUrl # 0 THEN << out >> ELSE << >>)
             \o Flatten(out.outlines) \o Flatten(Tail(outs))

\* Model.importOPML: os.Open and rss.ParseOPML, then opml.Flatten()
RunImportOpen ==
    \E t \in BagToSet(tasks) :
        /\ ended = "no"
        /\ t.k = "importOPML" /\ t.pc = 0
        /\ IF t.path \in {1, 3}
           THEN /\ tasks' = Add(Rem(tasks, t),
                                [t EXCEPT !.pc = 1,
                                          !.rest = Flatten(OPMLBodyAt(t.path))])
                /\ UNCHANGED msgs
           ELSE /\ tasks' = Rem(tasks, t)
                /\ msgs' = Add(msgs, ErrMsg("importOPML", 0, "parse"))
        /\ UNCHANGED store
        /\ TaskFrame

\* Model.importOPML, in the loop: the SELECT of db.AddFeed
RunImportMax ==
    \E t \in BagToSet(tasks) :
        /\ ended = "no"
        /\ t.k = "importOPML" /\ t.pc = 1 /\ t.rest # << >>
        /\ tasks' = Add(Rem(tasks, t), [t EXCEPT !.pc = 2, !.maxPos = MaxPosition(feeds)])
        /\ UNCHANGED << store, msgs >>
        /\ TaskFrame

\* Model.importOPML, in the loop: the INSERT of db.AddFeed; its id is dropped
RunImportInsert ==
    \E t \in BagToSet(tasks) :
        /\ ended = "no"
        /\ t.k = "importOPML" /\ t.pc = 2
        /\ LET r == AddFeedInsert(feeds, entries, bootFeedId, nextFeedId, Head(t.rest).xmlUrl, t.maxPos)
           IN  /\ feeds' = r.feeds
               /\ nextFeedId' = r.nextId
        /\ tasks' = Add(Rem(tasks, t), [t EXCEPT !.pc = 1, !.rest = Tail(t.rest)])
        /\ UNCHANGED << entries, bootFeedId, msgs >>
        /\ TaskFrame

\* ------------------------------------------------ Model.renderMarkdown
\* A text is a sequence of characters, each a number.  The characters the
\* two regular expressions tell apart have a code each; chA, chU, chV are
\* letters.  The codes from strImage on stand for the constant strings the
\* function writes, one code for one string; Token(k) is the string
\* fmt.Sprintf("GLAMOURTOKEN%dURL", k), whether the function wrote it or the
\* text of the entry contains it.
chBackslash == 1
chBang == 2
chLBracket == 3
chRBracket == 4
chLParen == 5
chRParen == 6
chSpace == 7
chNewline == 8
chQuote == 9
chA == 10
chU == 11
chV == 12
strImage == 20
strLink == 21
strImgPrefix == 22
oscOpen == 30
oscST == 31
oscClose == 32
sgrOn == 33
sgrOff == 34
Token(k) == 100 + k

\* \s of the regular expressions and unicode.IsSpace of strings.TrimSpace
Spaces == {chSpace, chNewline}

At(s, i, c) == i >= 1 /\ i <= Len(s) /\ s[i] = c

\* The end (exclusive) of the longest run of characters of S, resp. of
\* characters not in S, that starts at i: a greedy X* of the expressions.
SkipWhile(s, i, S) ==
    CHOOSE j \in i .. Len(s) + 1 :
        /\ \A k \in i .. j - 1 : s[k] \in S
        /\ j = Len(s) + 1 \/ s[j] \notin S

SkipUntil(s, i, S) ==
    CHOOSE j \in i .. Len(s) + 1 :
        /\ \A k \in i .. j - 1 : s[k] \notin S
        /\ j = Len(s) + 1 \/ s[j] \in S

Slice(s, from, to) == SubSeq(s, from, to - 1)

\* reLinkedImg, \[!\[([^\]]*)\]\([^)]+\)\]\(([^)]+)\), matched at i: whether
\* it matches, where the match ends and the two groups.
MatchLinkedImg(s, i) ==
    IF ~(At(s, i, chLBracket) /\ At(s, i + 1, chBang) /\ At(s, i + 2, chLBracket))
    THEN [ok |-> FALSE]
    ELSE LET a1 == SkipUntil(s, i + 3, {chRBracket})
         IN  IF ~(At(s, a1, chRBracket) /\ At(s, a1 + 1, chLParen))
             THEN [ok |-> FALSE]
             ELSE LET g1 == SkipUntil(s, a1 + 2, {chRParen})
                  IN  IF ~(g1 > a1 + 2 /\ At(s, g1, chRParen)
                               /\ At(s, g1 + 1, chRBracket)
                               /\ At(s, g1 + 2, chLParen))
                      THEN [ok |-> FALSE]
                      ELSE LET l1 == SkipUntil(s, g1 + 3, {chRParen})
                           IN  IF ~(l1 > g1 + 3 /\ At(s, l1, chRParen))
                               THEN [ok |-> FALSE]
                               ELSE [ok |-> TRUE, end |-> l1 + 1,
                                     alt |-> Slice(s, i + 3, a1),
                                     link |-> Slice(s, g1 + 3, l1)]

\* reLinkedImg.ReplaceAllString(md, "![$1]($2)"), from position i on
RECURSIVE ReplaceLinkedImg(_, _)
ReplaceLinkedImg(s, i) ==
    IF i > Len(s) THEN << >>
    ELSE LET m == MatchLinkedImg(s, i)
         IN  IF m.ok
             THEN << chBang, chLBracket >> \o m.alt \o << chRBracket, chLParen >>
                      \o m.link \o << chRParen >> \o ReplaceLinkedImg(s, m.end)
             ELSE << s[i] >> \o ReplaceLinkedImg(s, i + 1)

\* The end of the optional title and the spaces before the closing
\* parenthesis, (?:\s+["'][^"']*["'])?\s*, from the end u1 of the url: the
\* title is tried first, and given up when no ")" follows it.
AfterUrl(s, u1) ==
    LET w1 == SkipWhile(s, u1, Spaces)
        q1 == SkipUntil(s, w1 + 1, {chQuote})
        titled == /\ w1 > u1
                  /\ At(s, w1, chQuote)
                  /\ At(s, q1, chQuote)
                  /\ At(s, SkipWhile(s, q1 + 1, Spaces), chRParen)
    IN  IF titled THEN SkipWhile(s, q1 + 1, Spaces) ELSE w1

\* re, (\\)?(!)?\[([^\]]*)\]\(\s*([^\s\)]+)(?:\s+["'][^"']*["'])?\s*\),
\* matched at i: whether it matches, where the match ends and the groups.
MatchLink(s, i) ==
    LET i1 == IF At(s, i, chBackslash) THEN i + 1 ELSE i
        i2 == IF At(s, i1, chBang) THEN i1 + 1 ELSE i1
    IN  IF ~At(s, i2, chLBracket) THEN [ok |-> FALSE]
        ELSE LET t1 == SkipUntil(s, i2 + 1, {chRBracket})
             IN  IF ~(At(s, t1, chRBracket) /\ At(s, t1 + 1, chLParen))
                 THEN [ok |-> FALSE]
                 ELSE LET u0 == SkipWhile(s, t1 + 2, Spaces)
                          u1 == SkipUntil(s, u0, Spaces \cup {chRParen})
                      IN  IF ~(u1 > u0 /\ At(s, AfterUrl(s, u1), chRParen))
                          THEN [ok |-> FALSE]
                          ELSE [ok |-> TRUE, end |-> AfterUrl(s, u1) + 1,
                                escaped |-> i1 > i, bang |-> i2 > i1,
                                text |-> Slice(s, i2 + 1, t1),
                                url |-> Slice(s, u0, u1)]

\* The linkInfo the callback stores for a match.
LinkInfo(m) ==
    [isImage |-> m.bang,
     text |-> IF m.text = << >>
              THEN (IF m.bang THEN << strImage >> ELSE << strLink >>)
              ELSE m.text,
     url |-> m.url]

\* The callback of re.ReplaceAllStringFunc: every match gets a token; group
\* 1, the escape marker, is not looked at.
TokenizeMatch(m, count) == [token |-> TRUE, info |-> LinkInfo(m)]

\* re.ReplaceAllStringFunc(md, callback), from position i on, with
\* tokenCount = count: the processed text and the links table, whose
\* (k + 1)-th element is links["GLAMOURTOKENkURL"].
RECURSIVE Tokenize(_, _, _)
Tokenize(s, i, count) ==
    IF i > Len(s) THEN [text |-> << >>, links |-> << >>]
    ELSE LET m == MatchLink(s, i)
         IN  IF m.ok
             THEN LET c == TokenizeMatch(m, count)
                      rest == Tokenize(s, m.end, IF c.token THEN count + 1 ELSE count)
                  IN  IF c.token
                      THEN [text |-> << Token(count) >> \o rest.text,
                            links |-> << c.info >> \o rest.links]
                      ELSE [text |-> Slice(s, i, m.end) \o rest.text,
                            links |-> rest.links]
             ELSE LET rest == Tokenize(s, i + 1, count)
                  IN  [text |-> << s[i] >> \o rest.text, links |-> rest.links]

\* What m.renderer.Render returns without error, as far as renderMarkdown
\* depends on it: the words of the text in their order, after the margin
\* and before the blank line glamour sets around a document.
GlamourRender(text) == << chNewline, chSpace, chSpace >> \o text \o << chNewline, chNewline >>

\* fmt.Sprintf("\x1b]8;;%s\x1b\\%s\x1b]8;;\x1b\\", info.url, styledText),
\* styledText being the display text between the codes lipgloss sets.
Osc8(info) ==
    << oscOpen >> \o info.url \o << oscST, sgrOn >>
        \o (IF info.isImage THEN << strImgPrefix >> ELSE << >>) \o info.text
        \o << sgrOff, oscClose >>

\* strings.ReplaceAll(s, token, with)
RECURSIVE ReplaceAll(_, _, _)
ReplaceAll(s, token, with) ==
    IF s = << >> THEN << >>
    ELSE (IF Head(s) = token THEN with ELSE << Head(s) >>)
             \o ReplaceAll(Tail(s), token, with)

\* strings.TrimSpace
TrimSpace(s) ==
    IF \A i \in 1 .. Len(s) : s[i] \in Spaces THEN << >>
    ELSE LET first == CHOOSE i \in 1 .. Len(s) :
                          s[i] \notin Spaces /\ \A k \in 1 .. i - 1 : s[k] \in Spaces
             last == CHOOSE i \in 1 .. Len(s) :
                         s[i] \notin Spaces /\ \A k \in i + 1 .. Len(s) : s[k] \in Spaces
         IN  SubSeq(s, first, last)

\* The pieces the texts renderMarkdown is called with are made of.  kind is
\* what the piece is in Markdown; a link or image has its display text, its
\* destination and whether it is an image.
Word == [kind |-> "word", chars |-> << chA >>]
PlaceholderWord == [kind |-> "placeholder", chars |-> << Token(0) >>]
Link ==
    [kind |-> "link", isImage |-> FALSE, text |-> << chA >>, url |-> << chU >>,
     chars |-> << chLBracket, chA, chRBracket, chLParen, chU, chRParen >>]
Image ==
    [kind |-> "link", isImage |-> TRUE, text |-> << >>, url |-> << chV >>,
     chars |-> << chBang, chLBracket, chRBracket, chLParen, chV, chRParen >>]
LinkTitled ==
    [kind |-> "link", isImage |-> FALSE, text |-> << chV >>, url |-> << chU >>,
     chars |-> << chLBracket, chV, chRBracket, chLParen, chU, chSpace,
                  chQuote, chA, chQuote, chRParen >>]
LinkParenUrl ==
    [kind |-> "link", isImage |-> FALSE, text |-> << chA >>,
     url |-> << chU, chLParen, chV, chRParen >>,
     chars |-> << chLBracket, chA, chRBracket, chLParen,
                  chU, chLParen, chV, chRParen, chRParen >>]
LinkPlaceholderText ==
    [kind |-> "link", isImage |-> FALSE, text |-> << Token(1) >>, url |-> << chU >>,
     chars |-> << chLBracket, Token(1), chRBracket, chLParen, chU, chRParen >>]
LinkedImage ==
    [kind |-> "compound", isImage |-> TRUE, text |-> << chA >>, url |-> << chU >>,
     chars |-> << chLBracket, chBang, chLBracket, chA, chRBracket, chLParen, chV,
                  chRParen, chRBracket, chLParen, chU, chRParen >>]
EscapedLink ==
    [kind |-> "escaped",
     chars |-> << chBackslash, chLBracket, chA, chBackslash, chRBracket,
                  chLParen, chU, chRParen >>]

Pieces == {Word, PlaceholderWord, Link, Image, LinkTitled, LinkParenUrl,
           LinkPlaceholderText, LinkedImage, EscapedLink}

\* The texts of up to MaxPieces pieces, a space after each piece.
Texts == UNION {[1 .. n -> Pieces] : n \in 0 .. MaxPieces}

RECURSIVE Chars(_)
Chars(pieces) ==
    IF pieces = << >> THEN << >>
    ELSE Head(pieces).chars \o << chSpace >> \o Chars(Tail(pieces))

\* renderMarkdown is called with a text; the renderer is set by the first
\* tea.WindowSizeMsg and is nil before.  pieces is a ghost field.
RenderCall ==
    /\ render.pc = "idle"
    /\ \E pieces \in Texts, hasRenderer \in BOOLEAN :
           render' = [pc |-> "called", pieces |-> pieces, arg |-> Chars(pieces),
                      hasRenderer |-> hasRenderer, md |-> Chars(pieces),
                      processedMD |-> << >>, links |-> << >>, rendered |-> << >>,
                      pending |-> {}, failed |-> FALSE, out |-> << >>]
    /\ UNCHANGED program

\* if m.renderer == nil { return md }
RenderNoRenderer ==
    /\ render.pc = "called"
    /\ ~render.hasRenderer
    /\ render' = [render EXCEPT !.pc = "done", !.out = render.md]
    /\ UNCHANGED program

\* md = reLinkedImg.ReplaceAllString(...); processedMD := re.ReplaceAllStringFunc(...)
RenderTokenize ==
    /\ render.pc = "called"
    /\ render.hasRenderer
    /\ LET md == ReplaceLinkedImg(render.md, 1)
           t == Tokenize(md, 1, 0)
       IN  render' = [render EXCEPT !.pc = "tokenized", !.md = md,
                                    !.processedMD = t.text, !.links = t.links]
    /\ UNCHANGED program

\* rendered, err := m.renderer.Render(processedMD); if err != nil { return md }
RenderGlamour ==
    /\ render.pc = "tokenized"
    /\ \E err \in BOOLEAN :
           render' = IF err
                     THEN [render EXCEPT !.pc = "done", !.failed = TRUE,
                                         !.out = render.md]
                     ELSE [render EXCEPT !.pc = "rendered",
                                         !.rendered = GlamourRender(render.processedMD),
                                         !.pending = 0 .. Len(render.links) - 1]
    /\ UNCHANGED program

\* One iteration of for token, info := range links: the order in which a Go
\* map is ranged over is not specified.
RenderSubstitute ==
    /\ render.pc = "rendered"
    /\ \E k \in render.pending :
           render' = [render EXCEPT
                         !.rendered = ReplaceAll(render.rendered, Token(k),
                                                 Osc8(render.links[k + 1])),
                         !.pending = render.pending \ {k}]
    /\ UNCHANGED program

\* return strings.TrimSpace(rendered)
RenderReturn ==
    /\ render.pc = "rendered"
    /\ render.pending = {}
    /\ render' = [render EXCEPT !.pc = "done", !.out = TrimSpace(render.rendered)]
    /\ UNCHANGED program

\* ------------------------------------------------------ specification
RunTask ==
    \/ RunLoadFeeds
    \/ RunStartBackgroundSync
    \/ RunSyncFeed
    \/ RunLoadEntriesGet
    \/ RunLoadEntriesMark
    \/ RunViewEntry
    \/ RunDeleteFeed
    \/ RunThenLoadFeeds
    \/ RunExportOPML
    \/ RunAddFeedFetchFails
    \/ RunAddFeedMax
    \/ RunAddFeedInsert
    \/ RunAddFeedSync
    \/ RunImportOpen
    \/ RunImportMax
    \/ RunImportInsert

OnMsg ==
    \/ OnBackgroundSyncMsg
    \/ OnFeedSyncedMsg
    \/ OnFeedsMsg
    \/ OnEntriesMsg
    \/ OnContentMsg
    \/ OnExportMsg
    \/ OnErrMsg

OnKey ==
    \/ KeyHelp
    \/ KeyHelpExit
    \/ KeyIgnored
    \/ KeyQuit
    \/ KeyTab
    \/ KeyShiftTab
    \/ KeyA
    \/ KeyI
    \/ KeyR
    \/ KeyE
    \/ KeyFeedsUp
    \/ KeyFeedsDown
    \/ KeyFeedsJump
    \/ KeyAltUp
    \/ KeyAltDown
    \/ KeyD
    \/ KeyEntriesUp
    \/ KeyEntriesDown
    \/ KeyEntriesJump
    \/ KeyType
    \/ KeyAddEsc
    \/ KeyAddEnter
    \/ KeyImportEsc
    \/ KeyImportSelect

OnMouse ==
    \/ MouseIgnored
    \/ MouseClickFeeds
    \/ MouseClickEntries
    \/ MouseClickContent

Next == RunTask \/ OnMsg \/ OnKey \/ OnMouse

\* A fresh install: no feed stored, FreshInputs input events, every step of
\* the program.
Init == InitWith(0, FreshInputs)
Spec == Init /\ [][Next]_vars

\* A run over a store of InitFeeds feeds in which the user produces MaxInputs
\* input events: what the main screen answers to with the Feeds pane
\* focused, and the commands those keys and the start-up lead to.
RunTaskStored ==
    \/ RunLoadFeeds
    \/ RunStartBackgroundSync
    \/ RunSyncFeed
    \/ RunLoadEntriesGet
    \/ RunLoadEntriesMark
    \/ RunViewEntry
    \/ RunDeleteFeed
    \/ RunThenLoadFeeds
    \/ RunExportOPML

OnKeyStored ==
    \/ KeyHelp
    \/ KeyIgnored
    \/ KeyQuit
    \/ KeyTab
    \/ KeyShiftTab
    \/ KeyA
    \/ KeyI
    \/ KeyR
    \/ KeyE
    \/ KeyFeedsUp
    \/ KeyFeedsDown
    \/ KeyFeedsJump
    \/ KeyAltUp
    \/ KeyAltDown
    \/ KeyD

NextStored == RunTaskStored \/ OnMsg \/ OnKeyStored
InitStored == InitWith(InitFeeds, MaxInputs)
SpecStored == InitStored /\ [][NextStored]_vars

\* A run over a store of ReorderFeeds feeds in which the user moves the
\* selection and the selected feed, ReorderInputs times, while the start-up
\* sync has not begun.
NextReorder ==
    \/ RunLoadFeeds
    \/ RunLoadEntriesGet
    \/ RunLoadEntriesMark
    \/ OnFeedsMsg
    \/ OnEntriesMsg
    \/ KeyFeedsUp
    \/ KeyFeedsDown
    \/ KeyAltUp
    \/ KeyAltDown

InitReorder == InitWith(ReorderFeeds, ReorderInputs)
SpecReorder == InitReorder /\ [][NextReorder]_vars

\* A run over a store of ReorderFeeds feeds in which the user moves the
\* selection down and the selected feed up and down, RepairInputs times,
\* while only the feed-list reloads run.
NextRepair ==
    \/ RunLoadFeeds
    \/ OnFeedsMsg
    \/ KeyFeedsDown
    \/ KeyAltUp
    \/ KeyAltDown

InitRepair == InitWith(ReorderFeeds, RepairInputs)
SpecRepair == InitRepair /\ [][NextRepair]_vars

\* A fresh install in which the user imports a document and adds a feed,
\* with SubscribeInputs input events: the keys of the two dialogs and the
\* steps of the two commands up to their inserts.
NextSubscribe ==
    \/ KeyA
    \/ KeyType
    \/ KeyAddEnter
    \/ KeyI
    \/ KeyImportSelect
    \/ RunAddFeedFetchFails
    \/ RunAddFeedMax
    \/ RunAddFeedInsert
    \/ RunImportOpen
    \/ RunImportMax
    \/ RunImportInsert

InitSubscribe == InitWith(0, SubscribeInputs)
SpecSubscribe == InitSubscribe /\ [][NextSubscribe]_vars

\* A fresh install in which the user opens, fills and cancels the two
\* dialogs and looks at the help screen, with DialogInputs input events,
\* while the start-up commands run.
NextDialog ==
    \/ RunLoadFeeds
    \/ RunStartBackgroundSync
    \/ OnFeedsMsg
    \/ OnBackgroundSyncMsg
    \/ KeyA
    \/ KeyType
    \/ KeyAddEsc
    \/ KeyI
    \/ KeyImportEsc
    \/ KeyHelp
    \/ KeyHelpExit

InitDialog == InitWith(0, DialogInputs)
SpecDialog == InitDialog /\ [][NextDialog]_vars

\* A run over a store of InitFeeds feeds in which the user moves down the
\* feed list, deletes and reorders feeds or quits, with ShrinkInputs input
\* events, while the feed-list reloads and the deletions run.
NextShrink ==
    \/ RunLoadFeeds
    \/ RunDeleteFeed
    \/ RunThenLoadFeeds
    \/ OnFeedsMsg
    \/ KeyFeedsDown
    \/ KeyD
    \/ KeyAltUp
    \/ KeyQuit

InitShrink == InitWith(InitFeeds, ShrinkInputs)
SpecShrink == InitShrink /\ [][NextShrink]_vars

\* One call of renderMarkdown with a text of up to MaxPieces pieces.
NextRender ==
    \/ RenderCall
    \/ RenderNoRenderer
    \/ RenderTokenize
    \/ RenderGlamour
    \/ RenderSubstitute
    \/ RenderReturn

InitRender == InitWith(0, 0)
SpecRender == InitRender /\ [][NextRender]_vars

\* ================================================================ claims
\* The loop takes message m in this step: only a case of Update removes a
\* message, and it removes the one it handles.
Taken(m) == msgs' = Rem(msgs, m)

\* The command t returns in this step.
Returned(t) == CopiesIn(t, tasks') < CopiesIn(t, tasks)

\* The step adds a copy of message m.
Sent(m) == CopiesIn(m, msgs') > CopiesIn(m, msgs)

\* The step adds a copy of command t.
Dispatched(t) == CopiesIn(t, tasks') > CopiesIn(t, tasks)

\* ---------------------------------------------------------------- C1
\* C1: in every reachable state the modal state is one of Main, AddingFeed,
\* ImportingFeeds, Help (the declared exporting state is never reached) and
\* the pane focus is one of Feeds, Entries, Content.
ModalStateAndPaneInRange ==
    /\ state \in {stateMain, stateAddingFeed, stateImportingOPML, stateHelp}
    /\ state # stateExportingOPML
    /\ activePane \in {paneFeeds, paneEntries, paneContent}

\* Help opened over the main screen after the focus went backwards from the
\* Feeds pane, round to the Content pane.
HelpOverContentPane ==
    /\ state = stateHelp
    /\ previousState = stateMain
    /\ activePane = paneContent

\* ---------------------------------------------------------------- C2
\* The entry selected in the Entries list, 0 when there is none.
SelectedEntryId ==
    IF HasSelected(entryItems, entryIdx) THEN entryItems[entryIdx + 1].entry.id
    ELSE 0

\* C2: an entriesMsg of a load for feed F changes the Entries list only if F
\* is the current feed when it is taken, and a contentMsg for entry E changes
\* the Content viewport only if E is the selected entry then.
StaleCompletionsIgnored ==
    [][\A m \in BagToSet(msgs) :
          /\ (m.type = "entriesMsg" /\ Taken(m) /\ m.feed # currentFeed.id)
                => entryItems' = entryItems
          /\ (m.type = "contentMsg" /\ Taken(m) /\ m.entry # SelectedEntryId)
                => viewport' = viewport]_vars

\* ---------------------------------------------------------------- C3
\* No sync job is running and no completion of one waits for the loop.
SyncQuiet ==
    /\ \A t \in BagToSet(tasks) : t.k \notin {"startBackgroundSync", "syncFeed"}
    /\ \A m \in BagToSet(msgs) :
          /\ m.type \notin {"backgroundSyncMsg", "feedSyncedMsg"}
          /\ m.type = "errMsg" => m.from # "syncFeed"

\* C3: every completion of a sync job, successful or failed, decrements
\* syncPending, so once all the jobs have completed and their messages are
\* processed syncPending is 0.
PendingCountDrains == SyncQuiet => syncPending = 0

\* ---------------------------------------------------------------- C4
\* The links of the document a URL serves are all stored in E.
Merged(url, E) ==
    \E v \in RemoteVersions(url) :
        \A i \in 1 .. Len(v) : \E e \in E : e.link = v[i].link

\* C4: a backgroundSyncMsg starts one job per feed it carries; a job ends
\* only by returning its own message, whatever happened to its siblings; the
\* job of a feed whose fetch succeeds has merged the fetched entries when it
\* returns feedSyncedMsg, and the loop answers that message with the
\* decrement and the reload.
SiblingJobsComplete ==
    [][/\ \A m \in BagToSet(msgs) :
             (m.type = "backgroundSyncMsg" /\ Taken(m)) =>
                 \A i \in 1 .. Len(m.feeds) : Dispatched(SyncFeedCmd(m.feeds[i]))
       /\ \A t \in BagToSet(tasks) :
             (t.k = "syncFeed" /\ Returned(t)) =>
                 \/ Sent(ErrMsg("syncFeed", t.id, "fetch")) /\ entries' = entries
                 \/ Sent(ErrMsg("syncFeed", t.id, "save")) /\ entries' = entries
                 \/ /\ Sent([type |-> "feedSyncedMsg", feedID |-> t.id])
                    /\ Merged(t.url, entries')
       /\ \A m \in BagToSet(msgs) :
             (m.type = "feedSyncedMsg" /\ CopiesIn(m, msgs') < CopiesIn(m, msgs)) =>
                 /\ syncPending' = syncPending - 1
                 /\ Dispatched(LoadFeedsCmd)
       /\ \A t \in BagToSet(tasks) :
             (t.k = "syncFeed" /\ ended = "no") => ENABLED RunSyncFeed]_vars

\* Without any key pressed, the job of feed 1 has failed and its error was
\* shown, while feed 2's entries are stored and its completion was processed.
OneFailedOtherSynced ==
    /\ budget = MaxInputs
    /\ SyncQuiet
    /\ syncPending = 1
    /\ viewport.kind = "error"
    /\ entries # {}
    /\ \A e \in entries : e.feedId = 2
    /\ Merged(2, entries)

\* ---------------------------------------------------------------- C5
\* C5: when a feed is being viewed and the sync job of another feed fails,
\* processing its error message leaves the Content viewport unchanged.
OtherFeedSyncErrorSilent ==
    [][\A m \in BagToSet(msgs) :
          (/\ m.type = "errMsg"
           /\ m.from = "syncFeed"
           /\ currentFeed.id # 0
           /\ m.feed # currentFeed.id
           /\ Taken(m)) => viewport' = viewport]_vars

\* ---------------------------------------------------------------- C6
\* C6: once the initial load has happened, processing a feedSyncedMsg, or a
\* feedsMsg with no target index, leaves the modal state, the pane focus, the
\* Feeds selection index, currentFeed, the Entries list and the Content
\* viewport unchanged and dispatches no load-entries or content command.
RefreshKeepsContext ==
    [][\A m \in BagToSet(msgs) :
          (/\ initialLoadDone
           /\ \/ m.type = "feedSyncedMsg"
              \/ m.type = "feedsMsg" /\ m.index = -1
           /\ Taken(m)) =>
              /\ UNCHANGED << state, activePane, feedIdx, currentFeed,
                              entryItems, viewport >>
              /\ \A t \in BagToSet(tasks') :
                    t.k \in {"loadEntries", "viewEntry"} => ~Dispatched(t)]_vars

\* The list shows unread entries for the feed being viewed, which had none
\* when the initial load made it the current feed: a reload came after.
ReloadedAfterInitialLoad ==
    /\ initialLoadDone
    /\ currentFeed.unread = 0
    /\ activePane = paneEntries
    /\ \E i \in 1 .. Len(feedItems) :
          /\ feedItems[i].id = currentFeed.id
          /\ feedItems[i].unread > 0

\* ---------------------------------------------------------------- C7
\* Every command has returned and every message has been processed.
Quiescent == tasks = EmptyBag /\ msgs = EmptyBag /\ ended = "no"

\* C7: once every task has completed and every message has been processed,
\* the displayed feed list has the members and the order db.GetFeeds returns,
\* and the unread count it returns for every feed whose last-read time the
\* list has, whatever the order the completion messages arrived in.
DisplayedFeedsCurrent ==
    Quiescent =>
        LET stored == GetFeeds(feeds, entries)
        IN  /\ Len(feedItems) = Len(stored)
            /\ \A i \in 1 .. Len(stored) :
                  /\ feedItems[i].id = stored[i].id
                  /\ feedItems[i].lra = stored[i].lra
                        => feedItems[i].unread = stored[i].unread

\* ---------------------------------------------------------------- C8
\* The links stored in E.
Links(E) == {e.link : e \in E}

\* C8: a sync whose fetch fails, or one of whose inserts fails, returns an
\* error and leaves the entries table as it was; and the table never holds
\* part of a batch: a step that stores a new link stores the links of a whole
\* document.
SyncAllOrNothing ==
    [][/\ \A t \in BagToSet(tasks) :
             (/\ t.k = "syncFeed"
              /\ Returned(t)
              /\ ~Sent([type |-> "feedSyncedMsg", feedID |-> t.id])) =>
                  /\ \E why \in {"fetch", "save"} : Sent(ErrMsg("syncFeed", t.id, why))
                  /\ entries' = entries
       /\ Links(entries') # Links(entries) =>
             \E t \in BagToSet(tasks) :
                 /\ t.k \in {"syncFeed", "addFeed"}
                 /\ Returned(t)
                 /\ Merged(t.url, entries')]_vars

\* The second insert of feed 1's batch failed, after feed 2's batch was
\* stored: nothing of feed 1's batch is in the table.
SaveFailedNothingStored ==
    /\ \E m \in BagToSet(msgs) :
          m.type = "errMsg" /\ m.from = "syncFeed" /\ m.feed = 1 /\ m.why = "save"
    /\ Links(entries) = {2, 3}
    /\ \A e \in entries : e.feedId = 2

\* ---------------------------------------------------------------- C9
\* C9: no two stored entries have the same link, and a sync of a feed whose
\* remote items are stored already leaves the entries table exactly as it
\* was; no sync changes a field of an entry that exists.
SyncIdempotent ==
    [][/\ \A e1, e2 \in entries' : e1.link = e2.link => e1 = e2
       /\ \A t \in BagToSet(tasks) :
             (t.k = "syncFeed" /\ Returned(t)) =>
                 /\ entries \subseteq entries'
                 /\ Merged(t.url, entries) => entries' = entries]_vars

\* Feed 1 was synced twice, both times with success: the two completions
\* wait for the loop, and the table holds its two entries, one of them read.
SyncedTwice ==
    /\ CopiesIn([type |-> "feedSyncedMsg", feedID |-> 1], msgs) = 2
    /\ Cardinality({e \in entries : e.feedId = 1}) = 2
    /\ \E e \in entries : e.feedId = 1 /\ e.read

\* --------------------------------------------------------------- C10
\* The position stored for feed id in F (a set: empty for no such feed).
PositionsOf(F, id) == {f.pos : f \in {g \in F : g.id = id}}

\* The reorder of the item at idx with the one at nbr in this step had its
\* transaction committed.
Committed(idx, nbr) == feeds' = ReorderedFeeds(feeds, feedItems, idx, nbr, 0)

\* C10: with the Feeds pane focused and the feed at list index i selected,
\* i not the last, a move-down that commits exchanges the stored positions
\* of the feeds at i and i + 1 and leaves every other feed's position
\* unchanged.
MoveDownExchangesPositions ==
    [][(/\ KeyAltDown
        /\ feedIdx < Len(feedItems) - 1
        /\ Committed(feedIdx, feedIdx + 1)) =>
          LET a == feedItems[feedIdx + 1].id
              b == feedItems[feedIdx + 2].id
          IN  /\ PositionsOf(feeds', a) = PositionsOf(feeds, b)
              /\ PositionsOf(feeds', b) = PositionsOf(feeds, a)
              /\ \A f \in feeds :
                    f.id \notin {a, b} => PositionsOf(feeds', f.id) = {f.pos}]_vars

\* --------------------------------------------------------------- C11
\* The ids of the feeds in the order db.GetFeeds returns them.
DisplayIds(F, E) == [i \in 1 .. Cardinality(F) |-> GetFeeds(F, E)[i].id]

\* seq with the elements at i and j exchanged.
Transposed(seq, i, j) ==
    [k \in DOMAIN seq |-> IF k = i THEN seq[j] ELSE IF k = j THEN seq[i] ELSE seq[k]]

\* The list shows the store as it is, and the feeds at the list indices idx
\* and nbr have equal stored positions.
DegeneratePair(idx, nbr) ==
    /\ feedItems = GetFeeds(feeds, entries)
    /\ HasSelected(feedItems, idx) /\ HasSelected(feedItems, nbr)
    /\ feedItems[idx + 1].pos = feedItems[nbr + 1].pos

\* The reorder left the feeds that were at idx and nbr with distinct
\* positions, and the order a reload displays is the old one with the two
\* exchanged.
Repaired(idx, nbr) ==
    /\ PositionsOf(feeds', feedItems[idx + 1].id)
          # PositionsOf(feeds', feedItems[nbr + 1].id)
    /\ DisplayIds(feeds', entries')
          = Transposed(DisplayIds(feeds, entries), idx + 1, nbr + 1)

\* C11: when the selected feed and its neighbour have equal stored
\* positions, one reorder that commits leaves the two with distinct
\* positions, the moved feed on the requested side of its neighbour, and
\* every other feed where an adjacent transposition leaves it.
DegenerateReorderTransposes ==
    [][/\ (/\ KeyAltDown
           /\ DegeneratePair(feedIdx, feedIdx + 1)
           /\ Committed(feedIdx, feedIdx + 1)) => Repaired(feedIdx, feedIdx + 1)
       /\ (/\ KeyAltUp
           /\ DegeneratePair(feedIdx, feedIdx - 1)
           /\ Committed(feedIdx, feedIdx - 1)) => Repaired(feedIdx, feedIdx - 1)]_vars

\* --------------------------------------------------------------- C12
\* C12: from a store whose feeds have pairwise distinct positions, whatever
\* the add-feed, import, reorder and delete-feed operations and their
\* interleaving, no two feeds have the same position.
PositionsDistinct ==
    \A f, g \in feeds : f.pos = g.pos => f = g

\* --------------------------------------------------------------- C13
\* The order displayed after the reorder of the item at idx with the one at
\* nbr, the reload, and the reorder of the item then at nbr with the one at
\* idx, from a list that shows the table F as it is.
DisplayAfterThereAndBack(F, E, idx, nbr) ==
    LET F1 == ReorderedFeeds(F, GetFeeds(F, E), idx, nbr, 0)
        F2 == ReorderedFeeds(F1, GetFeeds(F1, E), nbr, idx, 0)
    IN  DisplayIds(F2, E)

\* C13: for every feed list and every selected index that has a neighbour, a
\* move-down followed, after the reload, by a move-up restores the display
\* order of the whole list, and likewise a move-up followed by a move-down.
SwapTwiceRestoresOrder ==
    feedItems = GetFeeds(feeds, entries) =>
        \A d \in {-1, 1} :
            (HasSelected(feedItems, feedIdx) /\ HasSelected(feedItems, feedIdx + d)) =>
                DisplayAfterThereAndBack(feeds, entries, feedIdx, feedIdx + d)
                    = DisplayIds(feeds, entries)

\* --------------------------------------------------------------- C14
\* The feeds table with both updates of the reorder of the item at idx with
\* the one at nbr applied.
BothUpdated(idx, nbr) ==
    LET a == feedItems[idx + 1]
        b == feedItems[nbr + 1]
        p == ReorderPositions(a, b, idx, nbr)
    IN  {IF f.id = a.id THEN [f EXCEPT !.pos = p[2]]
         ELSE IF f.id = b.id THEN [f EXCEPT !.pos = p[1]]
         ELSE f : f \in feeds}

MarkedFeedReportsZero ==
    [][\A t \in BagToSet(tasks) :
          (t.k = "loadEntries" /\ t.pc = 1 /\ Returned(t)) =>
              LET loaded == GetFeeds(feeds', entries')
              IN  \A i \in 1 .. Len(loaded) :
                      loaded[i].id = t.feed.id => loaded[i].unread = 0]_vars

\* C16: every feed a feed-list load returns carries as unreadCount the number
\* of stored entries of that feed published strictly after the lastReadAt the
\* store holds for it at the time of the load; the count is computed by the
\* load and is no column of the feeds table.
StoredAfterWatermark(id) ==
    {e \in entries : e.feedId = id /\ \E f \in feeds : f.id = id /\ f.lra < e.pub}

UnreadCountAsDefined ==
    [][/\ \A m \in BagToSet(msgs') :
             (m.type = "feedsMsg" /\ Sent(m)) =>
                 /\ {m.items[i].id : i \in 1 .. Len(m.items)} = {f.id : f \in feeds}
                 /\ \A i \in 1 .. Len(m.items) :
                        /\ m.items[i].unread
                               = Cardinality(StoredAfterWatermark(m.items[i].id))
                        /\ \E f \in feeds : /\ f.id = m.items[i].id
                                            /\ f.lra = m.items[i].lra
       /\ \A f \in feeds' : DOMAIN f = {"id", "url", "pos", "lra"}]_vars

\* A load has reported a feed that was marked read and has entries on both
\* sides of its watermark.
PartlyUnreadFeedLoaded ==
    \E m \in BagToSet(msgs) :
        /\ m.type = "feedsMsg"
        /\ \E i \in 1 .. Len(m.items) :
              /\ m.items[i].lra > 0
              /\ m.items[i].unread > 0
              /\ \E e \in entries : /\ e.feedId = m.items[i].id
                                    /\ e.pub <= m.items[i].lra

\* C17: the step of a load-entries command that advances the lastReadAt of
\* its feed delivers, in its entriesMsg, the lastReadAt the store held for
\* that feed immediately before the step.
WatermarkSnapshotDelivered ==
    [][\A t \in BagToSet(tasks) :
          (t.k = "loadEntries" /\ t.pc = 1 /\ Returned(t)) =>
              \A m \in BagToSet(msgs') :
                  (m.type = "entriesMsg" /\ Sent(m)) =>
                      \A f \in feeds : f.id = t.feed.id => m.lastReadAt = f.lra]_vars

\* C18: in stateMain, a key of the Feeds pane after which another feed is
\* selected sets currentFeed to that feed and dispatches a load-entries
\* command for it; a key of the Entries pane after which another entry is
\* selected dispatches a view-entry command for it.
SelectionCascades ==
    [][(Key /\ state = stateMain /\ feedItems' = feedItems
            /\ entryItems' = entryItems) =>
          /\ (feedIdx' # feedIdx /\ HasSelected(feedItems, feedIdx')) =>
                 /\ currentFeed' = feedItems[feedIdx' + 1]
                 /\ Dispatched(LoadEntriesCmd(feedItems[feedIdx' + 1]))
          /\ (entryIdx' # entryIdx /\ HasSelected(entryItems, entryIdx')) =>
                 Dispatched(ViewEntryCmd(entryItems[entryIdx' + 1].entry))]_vars

\* C19: a key pressed in stateHelp that is not an exit key (the state stays
\* stateHelp) changes nothing of the view state or the store and dispatches
\* no command.  A step of the mouse is not a key.
HelpIgnoresOtherKeys ==
    [][(Key /\ ~OnMouse /\ state = stateHelp /\ state' = stateHelp) =>
          UNCHANGED << store, tasks, view >>]_vars

\* C20: from the submit in stateAddingFeed until the completion message of
\* the add-feed command is processed the loading indicator is set: while the
\* command has not returned its message, loading is TRUE.
LoadingWhileAddFeedRuns ==
    \A t \in BagToSet(tasks) : t.k = "addFeed" => loading

\* C21: "esc" in stateAddingFeed or stateImportingOPML sets stateMain,
\* dispatches no command, leaves the store, the pane focus, the selections
\* and currentFeed unchanged, and in stateAddingFeed empties the input.
CancelOnlyLeaves ==
    [][(KeyAddEsc \/ KeyImportEsc) =>
          /\ state' = stateMain
          /\ tasks' = tasks
          /\ UNCHANGED << store, activePane, feedIdx, entryIdx, currentFeed >>
          /\ state = stateAddingFeed => textInput' = 0]_vars

\* The import dialog was cancelled after a look at the help screen from it:
\* the program is back in stateMain and no command of a dialog was issued.
ImportCancelled ==
    /\ budget = 0
    /\ state = stateMain
    /\ previousState = stateImportingOPML
    /\ \A t \in BagToSet(tasks) : t.k \notin {"importOPML", "addFeed"}

\* C22: in stateMain tab/right moves the focus Feeds -> Entries -> Content
\* -> Feeds and shift+tab/left moves it the other way round; neither changes
\* the modal state, a selection or currentFeed nor dispatches a command; a
\* retreat undoes an advance and three advances come back to the start.
After(p) ==
    IF p = paneFeeds THEN paneEntries
    ELSE IF p = paneEntries THEN paneContent ELSE paneFeeds

PaneCycle ==
    [][/\ KeyTab => activePane' = After(activePane)
       /\ KeyShiftTab => After(activePane') = activePane
       /\ (KeyTab \/ KeyShiftTab) =>
             /\ state = stateMain
             /\ UNCHANGED << state, feedIdx, entryIdx, currentFeed, tasks, store >>
             /\ PrevPane(NextPane(activePane)) = activePane
             /\ NextPane(NextPane(NextPane(activePane))) = activePane]_vars

\* One key was pressed and it took the focus from the Feeds pane back round
\* to the Content pane.
RetreatedToContent ==
    /\ budget = FreshInputs - 1
    /\ activePane = paneContent
    /\ state = stateMain

\* C23: only an explicit quit ends the event loop: whenever the loop has
\* ended, it has ended by the quit command of "q" in stateMain.
LoopEndsOnlyByQuit == ended # "no" => ended = "quit"

\* C24: a transition of the controller (Model.Update on a key, which takes
\* one input event, or on a message, which it takes from the loop) leaves
\* the store as it is: only the steps of dispatched commands touch it.
UpdateLeavesStore ==
    [][(budget' < budget \/ \E m \in BagToSet(msgs) : Taken(m)) =>
          UNCHANGED store]_vars

OnlyKinds(kinds) ==
    /\ render.pc # "idle"
    /\ \A i \in 1 .. Len(render.pieces) : render.pieces[i].kind \in kinds

EscapedNotTokenized ==
    (render.pc = "tokenized" /\ OnlyKinds({"word", "escaped"})) =>
        /\ render.links = << >>
        /\ render.processedMD = render.arg

\* C27: for a text of words and N well-formed, unescaped links and images,
\* none of them holding a string of placeholder form, and a renderer that
\* keeps the placeholder words, the output holds exactly N hyperlink
\* sequences, the k-th with the destination and the display text of the
\* k-th construct, and no placeholder.
RECURSIVE Hyperlinks(_)
Hyperlinks(s) ==
    IF \A i \in 1 .. Len(s) : s[i] # oscOpen THEN << >>
    ELSE LET open == SkipUntil(s, 1, {oscOpen})
             st == SkipUntil(s, open + 1, {oscST})
             off == SkipUntil(s, st + 1, {sgrOff})
         IN  << [url |-> Slice(s, open + 1, st), text |-> Slice(s, st + 2, off)] >>
                 \o Hyperlinks(SubSeq(s, off + 1, Len(s)))

RECURSIVE Constructs(_)
Constructs(pieces) ==
    IF pieces = << >> THEN << >>
    ELSE (IF Head(pieces).kind = "link"
          THEN << [url |-> Head(pieces).url,
                   text |-> (IF Head(pieces).isImage THEN << strImgPrefix >> ELSE << >>)
                            \o (IF Head(pieces).text # << >> THEN Head(pieces).text
                                ELSE IF Head(pieces).isImage THEN << strImage >>
                                ELSE << strLink >>)] >>
          ELSE << >>) \o Constructs(Tail(pieces))

NoPlaceholder(s) == \A i \in 1 .. Len(s) : s[i] < Token(0)

Rendered == render.pc = "done" /\ render.hasRenderer /\ ~render.failed

TokenizerRoundTrip ==
    (Rendered /\ OnlyKinds({"word", "link"}) /\ NoPlaceholder(render.arg)) =>
        /\ Hyperlinks(render.out) = Constructs(render.pieces)
        /\ NoPlaceholder(render.out)

\* C28: when the renderer returns an error, renderMarkdown returns the text
\* it was called with, character for character.
RenderFailureReturnsInput ==
    (render.pc = "done" /\ render.failed) => render.out = render.arg

\* C29: rehydration replaces only the placeholders the tokenizer inserted,
\* one for each entry of the links table, so the output holds as many
\* hyperlink sequences as the table has entries; and substituting two
\* entries in either order gives the same text.
Substituted(text, k) == ReplaceAll(text, Token(k), Osc8(render.links[k + 1]))

RehydratesOnlyOwnPlaceholders ==
    /\ Rendered =>
          Cardinality({i \in 1 .. Len(render.out) : render.out[i] = oscOpen})
              = Len(render.links)
    /\ render.pc = "rendered" =>
          \A j \in render.pending, k \in render.pending :
              Substituted(Substituted(render.rendered, j), k)
                  = Substituted(Substituted(render.rendered, k), j)

\* C30: Flatten returns only outlines that have a feed URL, so no outline
\* an import works through has an empty xmlUrl and no feed with an empty
\* URL is stored.
FlattenedHaveFeedUrl ==
    /\ \A t \in BagToSet(tasks) :
           t.k = "importOPML" => \A i \in 1 .. Len(t.rest) : t.rest[i].xmlUrl # 0
    /\ \A f \in feeds : f.url # 0

\* ---------------------------------------------------------------- C31
\* C31: the insert of addFeed for a URL that is already stored changes no row
\* of the feeds table (no feed is added, none changes its id, position or
\* lastReadAt), and is no error: no message is returned and the command goes
\* on to its sync.
AddIsIdempotent ==
    [][\A t \in BagToSet(tasks) :
          (/\ t.k = "addFeed" /\ t.pc = 1
           /\ Returned(t)
           /\ \E f \in feeds : f.url = t.url)
          => /\ feeds' = feeds
             /\ msgs' = msgs
             /\ \E id \in StaleInsertIds(entries, bootFeedId, nextFeedId) :
                    Dispatched([t EXCEPT !.pc = 2, !.id = id])]_vars

\* addFeed has run its insert for a URL whose row is not the one the insert
\* would have made: the feed was stored before.
AddedStoredUrl ==
    \E t \in BagToSet(tasks) :
        /\ t.k = "addFeed" /\ t.pc = 2
        /\ \E f \in feeds : f.url = t.url /\ f.pos # t.maxPos + 1

\* ---------------------------------------------------------------- C32
\* C32: when the delete of delete-feed for feed F has run, the store holds no
\* feed with F's id and no entry whose feedId is F's id, and the feeds and
\* entries of every other feed are as they were.
DeleteCascades ==
    [][\A t \in BagToSet(tasks) :
          (t.k = "deleteFeed" /\ t.pc = 0 /\ Returned(t))
          => /\ \A f \in feeds' : f.id # t.id
             /\ \A e \in entries' : e.feedId # t.id
             /\ feeds' = {f \in feeds : f.id # t.id}
             /\ entries' = {e \in entries : e.feedId # t.id}]_vars

\* ---------------------------------------------------------------- C33
\* C33: syncPending is never negative, also when refresh-all runs while jobs
\* of an earlier sync are outstanding and their completions arrive after it.
SyncPendingNeverNegative == syncPending >= 0

\* ---------------------------------------------------------------- C34
\* C34: in every reachable state of the store each entry's feedId is the id
\* of a feed the store holds.
EntriesReferToFeeds ==
    \A e \in entries : \E f \in feeds : f.id = e.feedId

\* ---------------------------------------------------------------- C35
\* C35: whenever no command is running, no message waits and the feed list
\* is not empty, currentFeed is the feed selected in the Feeds list and the
\* entries the Entries list holds are entries of that feed.
SelectionAgreesAtRest ==
    (Quiescent /\ Len(feedItems) > 0) =>
        /\ HasSelected(feedItems, feedIdx)
        /\ currentFeed.id = feedItems[feedIdx + 1].id
        /\ \A i \in 1 .. Len(entryItems) :
               entryItems[i].entry.feedId = feedItems[feedIdx + 1].id

\* ---------------------------------------------------------------- C36
\* C36: an input event, key or mouse, processed while the modal state is
\* AddingFeed, ImportingFeeds or Help does not change the pane focus, does
\* not change currentFeed and dispatches neither a load-entries nor a
\* view-entry command.
ModalInputKeepsFocus ==
    [][(budget' < budget
        /\ state \in {stateAddingFeed, stateImportingOPML, stateHelp})
       => /\ activePane' = activePane
          /\ currentFeed' = currentFeed
          /\ \A t \in BagToSet(tasks') :
                 t.k \in {"loadEntries", "viewEntry"} => ~Dispatched(t)]_vars

\* ---------------------------------------------------------------- C37
\* C37: the step of a load-entries command that advances the watermark of
\* its feed F leaves unread every entry of F that the command did not
\* return: an entry that a sync job merged for F after the command read the
\* entries, and that GetFeeds counted before the step, is counted after it.
WatermarkStopsAtReturned ==
    [][\A t \in BagToSet(tasks) :
          (t.k = "loadEntries" /\ t.pc = 1 /\ Returned(t)) =>
              \A e \in entries :
                  (/\ e.feedId = t.feed.id
                   /\ \A i \in 1 .. Len(t.got) : t.got[i].id # e.id
                   /\ \E f \in feeds : f.id = e.feedId /\ e.pub > f.lra)
                  => \E f \in feeds' : f.id = e.feedId /\ e.pub > f.lra]_vars
====
